---- MODULE Spec2Model ----
(***************************************************************************)
(* Retrieval-merge-dispatch pipeline of the invoice mailer.               *)
(*                                                                         *)
(* The repository holds five near-duplicate copies of the pipeline.  The   *)
(* variable `variant` says which copy is running:                          *)
(*   "GE"  src/app/api/generateAndEmail/route.js        POST               *)
(*   "S1"  src/app/api/scheduled/route.js   1..326      handler            *)
(*   "S2"  src/app/api/scheduled/route.js   328..626    POST               *)
(*   "U1"  src/unnamed/part_000             1..367      runMonthlyJob      *)
(*   "U2"  src/unnamed/part_000             369..701    runMonthlyJob      *)
(* The remote services (record listing, binary fetch, mail transport) are  *)
(* the environment: each of their answers is a nondeterministic choice.    *)
(***************************************************************************)
EXTENDS Integers, Sequences, FiniteSets, TLC

VARIABLES
  variant,           \* which copy of the pipeline runs
  STRIPE_KEYS,       \* key -> TRUE iff the credential is set
  body,              \* the body of the POST request (GE, S2), until the key loop
  gte, lte,          \* the run's window, epoch seconds
  now,               \* the date of the clock: year, month from 0, day of the month
  lastMonthIndex,    \* lastMonthIndex (S1, U1), parsedMonth (GE, S2)
  lastMonthYear,     \* lastMonthYear (S1, U1), parsedYear (GE, S2)
  pc,                \* position of the run
  logs,              \* the logs array (U1, U2 only)
  keyIdx,            \* position of the for-loop over the keys
  starting_after,    \* getInvoices: cursor
  paidAndOpenLinks,  \* getInvoices / run: Primary links
  otherStatusLinks,  \* getInvoices / run: Other links
  requests,          \* page requests issued by the current getInvoices call
  responses,         \* the answers to them, in order
  listOutcome,       \* how the last getInvoices call ended
  served,            \* records the remote has served in this run
  failures,          \* http.get calls that have failed in this run
  faults,            \* other remote failures of this run: listings, parses, sends
  catIdx,            \* position of the for-loop over the categories
  invIdx,            \* position of the for-loop over cat.links
  attempt,           \* downloadPdfInMemory: attempt
  fetches,           \* http.get calls of the current download call
  lastDownload,      \* summary of the download call that returned last
  pdfBuffers,        \* buffers collected for the current category
  outcomes,          \* per record of the category: what its download gave
  composed,          \* the (key, category) pair the category loop ended last
  attachmentsET,
  attachmentsNonET,
  mailer,            \* ADMIN_EMAIL / GMAIL_APP_PASSWORD as read before mailing
  sends,             \* sendMail calls issued, in order
  result,            \* the response of the run
  run,               \* 0: a single run; 1, 2: which of two runs has the processor
  tape,              \* two runs: what the first has read and the second has not yet
  other              \* two runs: the state of the run that is waiting

vars == <<variant, STRIPE_KEYS, body, gte, lte, now, lastMonthIndex, lastMonthYear, pc, logs, keyIdx, starting_after,
          paidAndOpenLinks, otherStatusLinks, requests, responses,
          listOutcome, served, failures, faults, catIdx, invIdx, attempt,
          fetches, lastDownload, pdfBuffers, outcomes, composed, attachmentsET, attachmentsNonET, mailer, sends, result, run, tape, other>>

(***************************************************************************)
(* Bounds of the environment.                                              *)
(***************************************************************************)
\* records the remote serves in one run, all accounts together
MaxRecords == 2
\* records in one page of the model's remote (the code asks for up to 10)
MaxPageLen == 2
\* http.get calls that fail in one run
MaxFailures == 5
\* page requests, document parses and sends that fail in one run
MaxFaults == 2

(***************************************************************************)
(* Program constants.                                                      *)
(***************************************************************************)
maxAttempts == 5
PageLimit == 10

Variants == {"GE", "S1", "S2", "U1", "U2"}
KeyOrder == <<"PC", "ET", "PCP">>
Keys == {"PC", "ET", "PCP"}
CategoryNames == <<"Paid_And_Open", "Other_Status">>
\* "missing" stands for a record without a status field
Statuses == {"paid", "open", "void", "missing"}
monthNames ==
  <<"January", "February", "March", "April", "May", "June",
    "July", "August", "September", "October", "November", "December">>
PlaceholderText == "No data available for this category."

(***************************************************************************)
(* What differs between the copies.                                        *)
(***************************************************************************)
\* the copy keeps a logs array and returns it
HasLogs(v) == v \in {"U1", "U2"}
\* downloadPdfInMemory throws instead of returning null
DownloadThrows(v) == v = "GE"
\* getInvoices wraps its loop in try/catch
ListCatches(v) == v \in {"S1", "U1", "U2"}
\* mergePdfs wraps its body in try/catch
MergeCatches(v) == v \in {"S1", "U1", "U2"}
\* mergePdfs is called whatever the length of pdfBuffers
MergesEmpty(v) == v \in {"GE", "S1", "U1"}
\* a null merge result is replaced by createEmptyPdf()
FallsBack(v) == v \in {"S1", "U1"}
\* the key loop skips a key whose credential is not set
ChecksKey(v) == v # "GE"
\* sendMail is wrapped in try/catch
SendCatches(v) == v # "GE"

(***************************************************************************)
(* Values.                                                                 *)
(***************************************************************************)
\* a document reference is a number; 0 is the absent (null) reference
IsAbsent(url) == url = 0

\* mutant: logs.unshift(message)
pushLog_Unshift(l, v, message) == IF HasLogs(v) THEN <<message>> \o l ELSE l

\* logs.push(message)
pushLog(l, v, message) == IF HasLogs(v) THEN Append(l, message) ELSE l

\* a PDF document value, or null
NullPdf == [kind |-> "null", pages |-> <<>>]
Pdf(pages) == [kind |-> "pdf", pages |-> pages]
TextPage(text) == [src |-> "-", inv |-> 0, no |-> 1, text |-> text]
BlankPage == TextPage("")

\* the document the remote holds for record inv of account key
NumPages(inv) == 1 + (inv % 2)
InvoicePages(key, inv) ==
  [j \in 1..NumPages(inv) |-> [src |-> key, inv |-> inv, no |-> j, text |-> "invoice"]]

\* response.data of a successful http.get: the bytes served for url of
\* account key; NullBuffer is the null a download returns for "unavailable"
Buffer(key, url) == [src |-> key, url |-> url]
NullBuffer == [src |-> "-", url |-> 0]
IsNullBuffer(b) == b.url = 0

RECURSIVE Concat(_)
Concat(seqs) ==
  IF seqs = <<>> THEN <<>> ELSE Head(seqs) \o Concat(Tail(seqs))

\* one log line
Log(msg, key, num, att) == [msg |-> msg, key |-> key, num |-> num, att |-> att]

(***************************************************************************)
(* mergePdfs and createEmptyPdf.                                           *)
(***************************************************************************)
\* PDFDocument.load throws on the buffer at position i: the bytes at position
\* bad are no well-formed document (bad = 0: every buffer parses), and only
\* GE lacks the `if (!buffer) continue` that keeps null away from load
LoadFails(pdfBufs, i, bad, v) ==
  IF IsNullBuffer(pdfBufs[i]) THEN v = "GE" ELSE i = bad

\* mutant: each document's pages are put in front of those already copied
MergedPages_Prepend(pdfBufs) ==
  Concat([i \in 1..Len(pdfBufs) |->
            LET b == pdfBufs[Len(pdfBufs) + 1 - i]
            IN IF IsNullBuffer(b) THEN <<>> ELSE InvoicePages(b.src, b.url)])

\* the pages copied into mergedPdf, buffer after buffer
MergedPages(pdfBufs) ==
  Concat([i \in 1..Len(pdfBufs) |->
            IF IsNullBuffer(pdfBufs[i]) THEN <<>>
            ELSE InvoicePages(pdfBufs[i].src, pdfBufs[i].url)])

\* mergedPdf.save(): pdf-lib adds one blank page to a document without pages
Save(pages) == Pdf(IF pages = <<>> THEN <<BlankPage>> ELSE pages)

\* the value of `await mergePdfs(pdfBuffers)`: a document, null, or a throw
mergePdfs(pdfBufs, v, bad) ==
  IF \E i \in 1..Len(pdfBufs) : LoadFails(pdfBufs, i, bad, v)
  THEN IF MergeCatches(v) THEN NullPdf ELSE [kind |-> "throw", pages |-> <<>>]
  ELSE Save(MergedPages(pdfBufs))

\* mutant: the page is added and drawText is left out
createEmptyPdf_NoText == Pdf(<<BlankPage>>)

\* createEmptyPdf: one page carrying the fixed text.  It reads no input and
\* calls no remote service, so its catch branch is never taken.
createEmptyPdf == Pdf(<<TextPage(PlaceholderText)>>)

(***************************************************************************)
(* getInvoices: classification.                                            *)
(***************************************************************************)
\* mutant: "open" is left out of the list
IsPrimary_PaidOnly(status) == status \in {"paid"}

IsPrimary(status) == status \in {"paid", "open"}

\* amount_paid and amount_due are copied along and never read: left out
pdfLink(invoice) ==
  [invoice_pdf |-> invoice.invoice_pdf, invoice_number |-> invoice.number]

\* the for-loop over invoices.data: the two arrays after the page
RECURSIVE Classify(_, _, _)
Classify(data, p, o) ==
  IF data = <<>> THEN [p |-> p, o |-> o]
  ELSE IF IsPrimary(Head(data).status)
       THEN Classify(Tail(data), Append(p, pdfLink(Head(data))), o)
       ELSE Classify(Tail(data), p, Append(o, pdfLink(Head(data))))

\* the log lines of the for-loop over invoices.data
InvoiceLogs(l, v, key, data) ==
  IF HasLogs(v)
  THEN l \o [i \in 1..Len(data) |-> Log("Invoice ID", key, data[i].id, 0)]
  ELSE l

\* the pages the model's remote may answer with
Min(a, b) == IF a < b THEN a ELSE b
RecordKinds == Statuses \X BOOLEAN
PageOf(first, kinds) ==
  [i \in 1..Len(kinds) |->
     [id |-> first + i - 1, number |-> first + i - 1, status |-> kinds[i][1],
      invoice_pdf |-> IF kinds[i][2] THEN first + i - 1 ELSE 0]]

(***************************************************************************)
(* The body of a POST request and its validation (GE 99-133, S2 445-479).  *)
(* A JSON value is undefined (field absent), an integer or a string; a     *)
(* string is the sequence of its characters.  Dates are taken in UTC.      *)
(***************************************************************************)
Undefined == [t |-> "undefined", n |-> 0, s |-> <<>>]
Num(n) == [t |-> "number", n |-> n, s |-> <<>>]
Str(s) == [t |-> "string", n |-> 0, s |-> s]

\* !v
Falsy(v) ==
  \/ v.t = "undefined"
  \/ v.t = "number" /\ v.n = 0
  \/ v.t = "string" /\ v.s = <<>>

DigitChars == <<"0", "1", "2", "3", "4", "5", "6", "7", "8", "9">>
IsDigit(c) == \E d \in 1..Len(DigitChars) : DigitChars[d] = c
DigitValue(c) == (CHOOSE d \in 1..Len(DigitChars) : DigitChars[d] = c) - 1

\* String(n) of an integer
RECURSIVE NatToString(_)
NatToString(n) ==
  IF n < 10 THEN <<DigitChars[n + 1]>>
  ELSE Append(NatToString(n \div 10), DigitChars[(n % 10) + 1])
StringOf(v) ==
  IF v.t = "string" THEN v.s
  ELSE IF v.t = "undefined" THEN <<"u", "n", "d", "e", "f", "i", "n", "e", "d">>
  ELSE IF v.n < 0 THEN <<"-">> \o NatToString(-v.n)
  ELSE NatToString(v.n)

NaN == [nan |-> TRUE, n |-> 0]
Number(n) == [nan |-> FALSE, n |-> n]
isNaN(x) == x.nan

\* the value of the longest prefix of digits of chars, acc the digits read so far
RECURSIVE DigitsPrefix(_, _, _)
DigitsPrefix(chars, acc, any) ==
  IF chars # <<>> /\ IsDigit(Head(chars))
  THEN DigitsPrefix(Tail(chars), 10 * acc + DigitValue(Head(chars)), TRUE)
  ELSE IF any THEN Number(acc) ELSE NaN

RECURSIVE TrimStart(_)
TrimStart(chars) ==
  IF chars # <<>> /\ Head(chars) = " " THEN TrimStart(Tail(chars)) ELSE chars

\* parseInt(v, 10)
parseInt(v) ==
  LET t == TrimStart(StringOf(v))
      neg == t # <<>> /\ Head(t) = "-"
      u == IF t # <<>> /\ Head(t) \in {"-", "+"} THEN Tail(t) ELSE t
      r == DigitsPrefix(u, 0, FALSE)
  IN IF r.nan THEN NaN ELSE Number(IF neg THEN -r.n ELSE r.n)

\* x - 1 and x + 1 on numbers that may be NaN
Minus1(x) == IF x.nan THEN NaN ELSE Number(x.n - 1)

\* days from 1970-01-01 to the first day of month m (1..12) of year y
DaysFromCivil(y, m) ==
  LET yy == IF m <= 2 THEN y - 1 ELSE y
      era == yy \div 400
      yoe == yy - era * 400
      mp == (m + 9) % 12
      doy == (153 * mp + 2) \div 5
      doe == yoe * 365 + yoe \div 4 - yoe \div 100 + doy
  IN era * 146097 + doe - 719468

\* new Date(year, monthIndex, day) as days from the epoch: a year 0..99 is
\* taken as 1900 + year, a monthIndex past 11 carries into the year, and
\* day 0 is the last day of the month before
DateDays(year, monthIndex, day) ==
  LET y0 == IF year >= 0 /\ year <= 99 THEN 1900 + year ELSE year
      y == y0 + (monthIndex \div 12)
      m == (monthIndex % 12) + 1
  IN DaysFromCivil(y, m) + (day - 1)

SecondsPerDay == 86400
\* gte: Math.floor(startDate.getTime() / 1000), startDate at 00:00:00.000
StartSeconds(parsedYear, parsedMonth) ==
  DateDays(parsedYear, parsedMonth, 1) * SecondsPerDay
\* lte: Math.floor(endDate.getTime() / 1000), endDate at 23:59:59.999
EndSeconds(parsedYear, parsedMonth) ==
  DateDays(parsedYear, parsedMonth + 1, 0) * SecondsPerDay + (SecondsPerDay - 1)

\* (year, month from 1, day) of the day that is z days from 1970-01-01
CivilFromDays(z) ==
  LET zz == z + 719468
      era == zz \div 146097
      doe == zz - era * 146097
      yoe == (doe - doe \div 1460 + doe \div 36524 - doe \div 146096) \div 365
      doy == doe - (365 * yoe + yoe \div 4 - yoe \div 100)
      mp == (5 * doy + 2) \div 153
      d == doy - (153 * mp + 2) \div 5 + 1
      m == IF mp < 10 THEN mp + 3 ELSE mp - 9
      y == yoe + era * 400 + (IF m <= 2 THEN 1 ELSE 0)
  IN [year |-> y, month |-> m, date |-> d]

\* dateObj.getFullYear() and dateObj.getMonth() of a date given in days
getFullYear(days) == CivilFromDays(days).year
getMonth(days) == CivilFromDays(days).month - 1

\* a reading of the clock; the time of the day is overwritten by setHours
\* or not read at all
Date(y, m, d) == [year |-> y, month |-> m, date |-> d]
\* const now = new Date(); // e.g., 2025-02-02
Today == Date(2025, 1, 2)

\* the month before, of the same year
lastMonthDate_SameYear(t) == DateDays(t.year, (t.month + 11) % 12, 1)
\* "lastMonthDate" is the 1st day of the previous month
lastMonthDate(t) == DateDays(t.year, t.month - 1, 1)

\* startDate.setMonth(startDate.getMonth() - 1); startDate.setHours(0, 0, 0, 0)
RangeStart(t) == DateDays(t.year, t.month - 1, t.date) * SecondsPerDay
\* the day before the day a month back
RangeEnd_MonthBack(t) ==
  DateDays(t.year, t.month - 1, t.date - 1) * SecondsPerDay + (SecondsPerDay - 1)
\* endDate.setDate(endDate.getDate() - 1); endDate.setHours(23, 59, 59, 999)
RangeEnd(t) ==
  DateDays(t.year, t.month, t.date - 1) * SecondsPerDay + (SecondsPerDay - 1)

\* the copies whose trigger is a POST with a { year, month } body
TakesBody(v) == v \in {"GE", "S2"}
NoBody == [kind |-> "none", year |-> Undefined, month |-> Undefined]
\* request.json() rejects, or the body is not an object
BrokenBody == [kind |-> "broken", year |-> Undefined, month |-> Undefined]
Years ==
  {Undefined, Num(0), Num(2024), Str(<<>>), Str(<<"a">>),
   Str(<<"2", "0", "2", "4">>), Str(<<"2", "0", "2", "4", "a">>)}
Months ==
  {Undefined, Num(0), Num(12), Num(13), Str(<<"x">>), Str(<<"0">>),
   Str(<<"1", "2">>), Str(<<"1", "3">>), Str(<<"-", "1">>), Str(<<" ", "1", "2", "x">>)}
Bodies ==
  {BrokenBody} \cup {[kind |-> "json", year |-> y, month |-> m] : y \in Years, m \in Months}

\* if (!year || !month)
Incomplete(b) == Falsy(b.year) \/ Falsy(b.month)
parsedYear(b) == parseInt(b.year)
parsedMonth(b) == Minus1(parseInt(b.month))
\* isNaN(parsedYear) || isNaN(parsedMonth) || parsedMonth < 0 || parsedMonth > 11
Invalid(b) ==
  \/ isNaN(parsedYear(b))
  \/ isNaN(parsedMonth(b))
  \/ parsedMonth(b).n < 0
  \/ parsedMonth(b).n > 11
Accepted(b) == b.kind = "json" /\ ~Incomplete(b) /\ ~Invalid(b)

\* the year and the month the run names its files and its mails by
NamedYear(v, b, t) ==
  IF TakesBody(v) THEN parsedYear(b).n
  ELSE IF v = "U2" THEN 0
  ELSE getFullYear(lastMonthDate(t))
NamedMonth(v, b, t) ==
  IF TakesBody(v) THEN parsedMonth(b).n
  ELSE IF v = "U2" THEN 0
  ELSE getMonth(lastMonthDate(t))

(***************************************************************************)
(* The run.                                                                *)
(***************************************************************************)
NoResult == [status |-> 0, success |-> "absent", hasLogs |-> FALSE,
             logs |-> <<>>, message |-> "", raised |-> FALSE, period |-> <<>>]
NoDownload == [url |-> 0, fetches |-> 0, ret |-> "none"]
NoPair == [key |-> "-", cat |-> 0, nlinks |-> 0, called |-> FALSE, bad |-> 0,
           kind |-> "none"]

\* the state of a process that has served no request yet
Start ==
  /\ variant \in Variants
  /\ STRIPE_KEYS \in [Keys -> BOOLEAN]
  \* GE reads its keys from config.json, which lists a credential for each
  /\ variant = "GE" => \A k \in Keys : STRIPE_KEYS[k]
  /\ gte = 0
  /\ lte = 0
  /\ lastMonthIndex = 0
  /\ lastMonthYear = 0
  /\ pc = "start"
  /\ logs = <<>>
  /\ keyIdx = 1
  /\ starting_after = 0
  /\ paidAndOpenLinks = <<>>
  /\ otherStatusLinks = <<>>
  /\ requests = <<>>
  /\ responses = <<>>
  /\ listOutcome = "none"
  /\ served = 0
  /\ failures = 0
  /\ faults = 0
  /\ catIdx = 1
  /\ invIdx = 1
  /\ attempt = 1
  /\ fetches = 0
  /\ lastDownload = NoDownload
  /\ pdfBuffers = <<>>
  /\ outcomes = <<>>
  /\ composed = NoPair
  /\ attachmentsET = <<>>
  /\ attachmentsNonET = <<>>
  /\ mailer = "unread"
  /\ sends = <<>>
  /\ result = NoResult

\* one request
Init ==
  /\ Start
  /\ body \in (IF TakesBody(variant) THEN Bodies ELSE {NoBody})
  /\ now = Today
  /\ run = 0
  /\ tape = <<>>
  /\ other = NoResult

listVars == <<starting_after, paidAndOpenLinks, otherStatusLinks, requests,
              responses, listOutcome>>
dlVars == <<invIdx, attempt, fetches, lastDownload, pdfBuffers, outcomes, composed>>
envVars == <<served, failures, faults>>
mailVars == <<mailer, sends>>
inputVars == <<variant, STRIPE_KEYS, gte, lte, now, lastMonthIndex, lastMonthYear>>
attVars == <<attachmentsET, attachmentsNonET>>

\* an exception nothing below the route catches: the route's catch answers 500
Respond500 ==
  /\ pc' = "done"
  /\ result' = [status |-> 500, success |-> "false", hasLogs |-> FALSE,
                logs |-> <<>>, message |-> "error", raised |-> TRUE,
                period |-> <<>>]

\* the lines logged before the key loop
StartLogs(v) ==
  IF v = "U1"
  THEN <<Log("Starting", "-", 0, 0), Log("Now", "-", 0, 0),
         Log("Last Month Date", "-", 0, 0), Log("Start date", "-", 0, 0),
         Log("End date", "-", 0, 0)>>
  ELSE IF v = "U2"
  THEN <<Log("Starting", "-", 0, 0), Log("Now", "-", 0, 0),
         Log("Range Start", "-", 0, 0), Log("Range End", "-", 0, 0)>>
  ELSE <<>>

\* what every step before the key loop leaves alone
idleVars == <<keyIdx, listVars, envVars, catIdx, dlVars, attVars, mailVars>>

\* the last element of a sequence
LastOf(seq) == seq[Len(seq)]

\* a step that reads nothing from outside the process; of two runs, the
\* second never goes past the last read of the first
Local ==
  /\ run = 1 => tape = <<>>
  /\ run = 2 => (tape # <<>> \/ other.pc = "done")
  /\ UNCHANGED <<run, tape, other>>

\* a step that reads e from outside the process (a remote response, the clock,
\* the environment); of two runs, the second reads what the first has read
Remote(e) ==
  /\ UNCHANGED <<run, other>>
  /\ CASE run = 0 -> UNCHANGED tape
       [] run = 1 -> tape = <<>> /\ tape' = <<e>>
       [] run = 2 -> tape = <<e>> /\ tape' = <<>>

\* const body = await request.json(); const { year, month } = body; throws
ReadBodyFails ==
  /\ pc = "start"
  /\ TakesBody(variant)
  /\ body.kind = "broken"
  /\ Respond500
  /\ UNCHANGED <<inputVars, body, logs, idleVars>>
  /\ Local

\* the two 400 answers of the validation
RejectInput ==
  /\ pc = "start"
  /\ TakesBody(variant)
  /\ body.kind = "json"
  /\ ~Accepted(body)
  /\ pc' = "done"
  /\ result' = [status |-> 400, success |-> "absent", hasLogs |-> FALSE,
                logs |-> <<>>,
                message |-> IF Incomplete(body)
                            THEN "Please provide both year and month."
                            ELSE "Invalid year or month.",
                raised |-> FALSE, period |-> <<>>]
  /\ UNCHANGED <<inputVars, body, logs, idleVars>>
  /\ Local

\* from the entry of the run to the key loop: the window is computed
StartRun ==
  /\ pc = "start"
  /\ TakesBody(variant) => Accepted(body)
  /\ pc' = "keys"
  /\ lastMonthYear' = NamedYear(variant, body, now)
  /\ lastMonthIndex' = NamedMonth(variant, body, now)
  /\ IF variant = "U2"
     THEN /\ gte' = RangeStart(now)
          /\ lte' = RangeEnd(now)
     ELSE /\ gte' = StartSeconds(lastMonthYear', lastMonthIndex')
          /\ lte' = EndSeconds(lastMonthYear', lastMonthIndex')
  /\ logs' = StartLogs(variant)
  /\ UNCHANGED <<variant, STRIPE_KEYS, body, now, idleVars, result>>
  /\ Remote(<<"window", gte', lte'>>)

\* the locals of the previous iteration of the key loop are out of scope
LeaveKey ==
  /\ body' = NoBody    \* year and month are not read after the validation
  /\ paidAndOpenLinks' = <<>>
  /\ otherStatusLinks' = <<>>
  /\ listOutcome' = "none"
  /\ pdfBuffers' = <<>>
  /\ outcomes' = <<>>
  /\ composed' = NoPair

\* for (const configKey of Object.keys(STRIPE_KEYS)): the loop is over
KeysDone ==
  /\ pc = "keys"
  /\ keyIdx > Len(KeyOrder)
  /\ pc' = "mail"
  /\ LeaveKey
  /\ UNCHANGED <<inputVars, logs, keyIdx, starting_after, requests, responses,
                 envVars, catIdx, invIdx, attempt, fetches, lastDownload,
                 attVars, mailVars, result>>
  /\ Local

\* if (!keyVal) { pushLog(...); continue; }
SkipKey ==
  /\ pc = "keys"
  /\ keyIdx <= Len(KeyOrder)
  /\ ChecksKey(variant)
  /\ ~STRIPE_KEYS[KeyOrder[keyIdx]]
  /\ logs' = pushLog(logs, variant, Log("Missing env var", KeyOrder[keyIdx], 0, 0))
  /\ keyIdx' = keyIdx + 1
  /\ LeaveKey
  /\ UNCHANGED <<inputVars, pc, starting_after, requests, responses, envVars,
                 catIdx, invIdx, attempt, fetches, lastDownload, attVars,
                 mailVars, result>>
  /\ Local

\* initStripe(keyVal) and the entry of getInvoices
EnterKey ==
  /\ pc = "keys"
  /\ keyIdx <= Len(KeyOrder)
  /\ ChecksKey(variant) => STRIPE_KEYS[KeyOrder[keyIdx]]
  /\ pc' = "list"
  /\ body' = NoBody
  /\ starting_after' = 0
  /\ paidAndOpenLinks' = <<>>
  /\ otherStatusLinks' = <<>>
  /\ requests' = <<>>
  /\ responses' = <<>>
  /\ listOutcome' = "running"
  /\ pdfBuffers' = <<>>
  /\ outcomes' = <<>>
  /\ composed' = NoPair
  /\ UNCHANGED <<inputVars, logs, keyIdx, envVars, catIdx, invIdx, attempt,
                 fetches, lastDownload, attVars, mailVars, result>>
  /\ Local

\* mutant: the cursor is not passed on
PageRequest_NoCursor ==
  [limit |-> PageLimit, starting_after |-> 0, gte |-> gte, lte |-> lte]

\* the request of one stripe.invoices.list call
PageRequest ==
  [limit |-> PageLimit, starting_after |-> starting_after, gte |-> gte, lte |-> lte]

\* the records the current getInvoices call has received, in order
Received == Concat([i \in 1..Len(responses) |-> responses[i].data])

\* stripe.invoices.list answers with a page
ListPage ==
  /\ UNCHANGED body
  /\ pc = "list"
  /\ \E n \in 0..Min(MaxPageLen, MaxRecords - served), has_more \in BOOLEAN :
       \E kinds \in [1..n -> RecordKinds] :
         LET data == PageOf(Len(Received) + 1, kinds)
             c == Classify(data, paidAndOpenLinks, otherStatusLinks)
         IN /\ requests' = Append(requests, PageRequest)
            /\ served' = served + n
            /\ responses' = Append(responses, [ok |-> TRUE, data |-> data,
                                                has_more |-> has_more])
            /\ IF n = 0
               THEN \* if (!invoices.data || invoices.data.length === 0) break
                    /\ UNCHANGED <<paidAndOpenLinks, otherStatusLinks, logs,
                                   starting_after>>
                    /\ listOutcome' = "ok"
                    /\ pc' = "cats"
               ELSE /\ paidAndOpenLinks' = c.p
                    /\ otherStatusLinks' = c.o
                    /\ logs' = InvoiceLogs(logs, variant, KeyOrder[keyIdx], data)
                    /\ IF has_more
                       THEN /\ starting_after' = data[Len(data)].id
                            /\ UNCHANGED <<pc, listOutcome>>
                       ELSE /\ UNCHANGED starting_after
                            /\ listOutcome' = "ok"
                            /\ pc' = "cats"
  /\ catIdx' = 1
  /\ UNCHANGED <<inputVars, keyIdx, failures, faults, dlVars, attVars, mailVars, result>>
  /\ Remote(<<"list", LastOf(responses')>>)

\* stripe.invoices.list throws
ListFail ==
  /\ UNCHANGED body
  /\ pc = "list"
  /\ faults < MaxFaults
  /\ faults' = faults + 1
  /\ requests' = Append(requests, PageRequest)
  /\ responses' = Append(responses, [ok |-> FALSE, data |-> <<>>, has_more |-> FALSE])
  /\ listOutcome' = IF ListCatches(variant) THEN "error" ELSE "throw"
  /\ IF ListCatches(variant)
     THEN \* catch: return { paidAndOpenLinks: [], otherStatusLinks: [] }
          /\ logs' = pushLog(logs, variant,
                              Log("Error fetching invoices", KeyOrder[keyIdx], 0, 0))
          /\ paidAndOpenLinks' = <<>>
          /\ otherStatusLinks' = <<>>
          /\ pc' = "cats"
          /\ UNCHANGED result
     ELSE /\ Respond500
          /\ UNCHANGED <<logs, paidAndOpenLinks, otherStatusLinks>>
  /\ catIdx' = 1
  /\ UNCHANGED <<inputVars, keyIdx, starting_after, served, failures,
                 dlVars, attVars, mailVars>>
  /\ Remote(<<"list", LastOf(responses')>>)

(***************************************************************************)
(* The loop over the two categories of one key.                            *)
(***************************************************************************)
CurrentKey == KeyOrder[keyIdx]
CurrentLinks == IF catIdx = 1 THEN paidAndOpenLinks ELSE otherStatusLinks

\* the period part of the filename: month name and year, or start_to_end
Period(v) ==
  IF v = "U2" THEN <<"range", gte, lte>>
  ELSE <<monthNames[lastMonthIndex + 1], lastMonthYear>>
\* mutant: the name of the category is left out of the filename
FileName_NoCategory(key, cat, v) ==
  [key |-> key, cat |-> "", period |-> Period(v)]

\* mutant: the name carries a stamp of the request that built it
FileName_Stamped(key, cat, v) ==
  [key |-> key, cat |-> CategoryNames[cat], period |-> <<"stamp", run, gte, lte>>]

FileName(key, cat, v) == [key |-> key, cat |-> CategoryNames[cat], period |-> Period(v)]

\* the end of one iteration of the category loop
NextCategory ==
  IF catIdx < Len(CategoryNames)
  THEN /\ catIdx' = catIdx + 1
       /\ pc' = "cats"
       /\ UNCHANGED keyIdx
  ELSE /\ catIdx' = 1
       /\ keyIdx' = keyIdx + 1
       /\ pc' = "keys"

\* mutant: the test on configKey is inverted
Attach_Inverted(pdf) ==
  LET attachment == [filename |-> FileName(CurrentKey, catIdx, variant),
                     content |-> pdf.pages]
  IN IF CurrentKey # "ET"
     THEN /\ attachmentsET' = Append(attachmentsET, attachment)
          /\ UNCHANGED attachmentsNonET
     ELSE /\ attachmentsNonET' = Append(attachmentsNonET, attachment)
          /\ UNCHANGED attachmentsET

\* if (configKey === "ET") attachmentsET.push(..) else attachmentsNonET.push(..)
Attach(pdf) ==
  LET attachment == [filename |-> FileName(CurrentKey, catIdx, variant),
                     content |-> pdf.pages]
  IN IF CurrentKey = "ET"
     THEN /\ attachmentsET' = Append(attachmentsET, attachment)
          /\ UNCHANGED attachmentsNonET
     ELSE /\ attachmentsNonET' = Append(attachmentsNonET, attachment)
          /\ UNCHANGED attachmentsET

\* cat.links.length > 0: enter the download loop
BeginCategory ==
  /\ UNCHANGED body
  /\ pc = "cats"
  /\ Len(CurrentLinks) > 0
  /\ pc' = "download"
  /\ invIdx' = 1
  /\ attempt' = 1
  /\ fetches' = 0
  /\ pdfBuffers' = <<>>
  /\ outcomes' = <<>>
  /\ composed' = NoPair
  /\ requests' = <<>>
  /\ responses' = <<>>
  /\ starting_after' = 0
  /\ UNCHANGED <<inputVars, logs, keyIdx, paidAndOpenLinks, otherStatusLinks,
                 listOutcome, envVars, catIdx, lastDownload, attVars, mailVars,
                 result>>
  /\ Local

\* no links: finalPdfBuffer = await createEmptyPdf()
EmptyCategory ==
  /\ UNCHANGED body
  /\ pc = "cats"
  /\ Len(CurrentLinks) = 0
  /\ Attach(createEmptyPdf)
  /\ NextCategory
  /\ pdfBuffers' = <<>>
  /\ outcomes' = <<>>
  /\ composed' = [key |-> CurrentKey, cat |-> catIdx, nlinks |-> 0,
                  called |-> FALSE, bad |-> 0, kind |-> "attached"]
  /\ requests' = <<>>
  /\ responses' = <<>>
  /\ starting_after' = 0
  /\ UNCHANGED <<inputVars, logs, paidAndOpenLinks, otherStatusLinks,
                 listOutcome, envVars, invIdx, attempt, fetches, lastDownload,
                 mailVars, result>>
  /\ Local

(***************************************************************************)
(* downloadPdfInMemory, one attempt per step, and `if (buff) push`.        *)
(***************************************************************************)
CurrentUrl == CurrentLinks[invIdx].invoice_pdf
CurrentNumber == CurrentLinks[invIdx].invoice_number

\* mutant: one more http.get call is made before the call returns
DownloadReturns_OneMore(buf, n) ==
  /\ lastDownload' = [url |-> CurrentUrl, fetches |-> n + 1,
                      ret |-> IF IsNullBuffer(buf) THEN "null" ELSE "bytes"]
  /\ pdfBuffers' = IF IsNullBuffer(buf) THEN pdfBuffers ELSE Append(pdfBuffers, buf)
  /\ outcomes' = Append(outcomes, buf)
  /\ attempt' = 1
  /\ fetches' = 0
  /\ UNCHANGED <<result, composed>>
  /\ IF invIdx < Len(CurrentLinks)
     THEN /\ invIdx' = invIdx + 1
          /\ UNCHANGED pc
     ELSE /\ UNCHANGED invIdx
          /\ pc' = "merge"

\* the call returns buf (NullBuffer for null) after n http.get calls
DownloadReturns(buf, n) ==
  /\ lastDownload' = [url |-> CurrentUrl, fetches |-> n,
                      ret |-> IF IsNullBuffer(buf) THEN "null" ELSE "bytes"]
  /\ pdfBuffers' = IF IsNullBuffer(buf) THEN pdfBuffers ELSE Append(pdfBuffers, buf)
  /\ outcomes' = Append(outcomes, buf)
  /\ attempt' = 1
  /\ fetches' = 0
  /\ UNCHANGED <<result, composed>>
  /\ IF invIdx < Len(CurrentLinks)
     THEN /\ invIdx' = invIdx + 1
          /\ UNCHANGED pc
     ELSE /\ UNCHANGED invIdx
          /\ pc' = "merge"

\* the call throws after n http.get calls (GE only)
DownloadRaises(n) ==
  /\ lastDownload' = [url |-> CurrentUrl, fetches |-> n, ret |-> "throw"]
  /\ Respond500
  /\ UNCHANGED <<pdfBuffers, outcomes, attempt, fetches, invIdx, composed>>

\* mutant: only the last failed attempt is logged
AttemptFailed_SilentRetry(n) ==
  IF attempt = maxAttempts
  THEN /\ logs' = pushLog(pushLog(logs, variant,
                     Log("Error downloading", CurrentKey, CurrentNumber, attempt)),
                     variant, Log("Skipping invoice", CurrentKey, CurrentNumber, 0))
       /\ IF DownloadThrows(variant) THEN DownloadRaises(n)
          ELSE DownloadReturns(NullBuffer, n)
  ELSE /\ attempt' = attempt + 1
       /\ fetches' = n
       /\ UNCHANGED <<logs, lastDownload, pdfBuffers, outcomes, invIdx, pc, result,
                      composed>>

\* the catch block of one attempt that failed after n http.get calls
AttemptFailed(n) ==
  IF attempt = maxAttempts
  THEN /\ logs' = pushLog(pushLog(logs, variant,
                     Log("Error downloading", CurrentKey, CurrentNumber, attempt)),
                     variant, Log("Skipping invoice", CurrentKey, CurrentNumber, 0))
       /\ IF DownloadThrows(variant) THEN DownloadRaises(n)
          ELSE DownloadReturns(NullBuffer, n)
  ELSE /\ logs' = pushLog(logs, variant,
                     Log("Error downloading", CurrentKey, CurrentNumber, attempt))
       /\ attempt' = attempt + 1
       /\ fetches' = n
       /\ UNCHANGED <<lastDownload, pdfBuffers, outcomes, invIdx, pc, result,
                      composed>>

\* if (!url): return null; GE throws inside its try and so retries
NoUrl ==
  /\ UNCHANGED body
  /\ pc = "download"
  /\ attempt <= maxAttempts
  /\ IsAbsent(CurrentUrl)
  /\ IF DownloadThrows(variant)
     THEN AttemptFailed(fetches)
     ELSE /\ logs' = pushLog(logs, variant,
                        Log("No PDF URL", CurrentKey, CurrentNumber, 0))
          /\ DownloadReturns(NullBuffer, fetches)
  /\ UNCHANGED <<inputVars, keyIdx, listVars, envVars, catIdx, attVars, mailVars>>
  /\ Local

\* http.get succeeds: return response.data
FetchOk ==
  /\ UNCHANGED body
  /\ pc = "download"
  /\ attempt <= maxAttempts
  /\ ~IsAbsent(CurrentUrl)
  /\ DownloadReturns(Buffer(CurrentKey, CurrentUrl), fetches + 1)
  /\ logs' = pushLog(logs, variant,
                     Log("File downloaded", CurrentKey, CurrentNumber, 0))
  /\ UNCHANGED <<inputVars, keyIdx, listVars, envVars, catIdx, attVars, mailVars>>
  /\ Remote(<<"fetch", TRUE>>)

\* http.get throws (network error, non-2xx, timeout)
FetchFail ==
  /\ UNCHANGED body
  /\ pc = "download"
  /\ attempt <= maxAttempts
  /\ ~IsAbsent(CurrentUrl)
  /\ failures < MaxFailures
  /\ failures' = failures + 1
  /\ AttemptFailed(fetches + 1)
  /\ UNCHANGED <<inputVars, keyIdx, listVars, served, faults, catIdx, attVars,
                 mailVars>>
  /\ Remote(<<"fetch", FALSE>>)

(***************************************************************************)
(* Merge, fallback and attachment of one category with links.              *)
(***************************************************************************)
\* finalPdfBuffer once the downloads of the category are over
finalPdfBuffer(pdfBufs, v, bad) ==
  LET merged == IF Len(pdfBufs) > 0 \/ MergesEmpty(v)
                THEN mergePdfs(pdfBufs, v, bad)
                ELSE createEmptyPdf
  IN IF merged.kind = "null" /\ FallsBack(v) THEN createEmptyPdf ELSE merged

\* the lines logged between the last download and the attachment
MergeLogs(pdfBufs, v, key, bad) ==
  LET called == Len(pdfBufs) > 0 \/ MergesEmpty(v)
      failed == called /\ mergePdfs(pdfBufs, v, bad).kind = "null"
  IN (IF failed THEN <<Log("Error merging PDF buffers", key, 0, 0)>> ELSE <<>>)
     \o (IF failed /\ v = "U1" THEN <<Log("Merging failed or empty", key, 0, 0)>> ELSE <<>>)
     \o (IF ~called /\ v = "U2" THEN <<Log("No valid PDFs", key, 0, 0)>> ELSE <<>>)
     \o (IF finalPdfBuffer(pdfBufs, v, bad).kind = "null"
         THEN <<Log("Could not create final PDF", key, 0, 0)>> ELSE <<>>)

FinishCategory ==
  /\ UNCHANGED body
  /\ pc = "merge"
  /\ \E bad \in 0..(IF faults < MaxFaults THEN Len(pdfBuffers) ELSE 0) :
     LET final == finalPdfBuffer(pdfBuffers, variant, bad)
     IN /\ faults' = IF bad = 0 THEN faults ELSE faults + 1
        /\ composed' = [key |-> CurrentKey, cat |-> catIdx,
                        nlinks |-> Len(CurrentLinks),
                        called |-> Len(pdfBuffers) > 0 \/ MergesEmpty(variant),
                        bad |-> bad,
                        kind |-> IF final.kind = "throw" THEN "aborted"
                                 ELSE IF final.kind = "null" THEN "skipped"
                                 ELSE "attached"]
        /\ IF final.kind = "throw"
           THEN \* mergePdfs threw (GE, S2): the route's catch answers
                /\ Respond500
                /\ UNCHANGED <<logs, keyIdx, catIdx, attVars>>
           ELSE /\ logs' = IF HasLogs(variant)
                           THEN logs \o MergeLogs(pdfBuffers, variant, CurrentKey, bad)
                           ELSE logs
                /\ IF final.kind = "null"
                   THEN UNCHANGED attVars    \* if (!finalPdfBuffer) continue
                   ELSE Attach(final)
                /\ NextCategory
                /\ UNCHANGED result
  /\ lastDownload' = NoDownload
  /\ invIdx' = 1
  /\ UNCHANGED <<inputVars, listVars, served, failures, attempt, fetches,
                 pdfBuffers, outcomes, mailVars>>
  /\ Remote(<<"merge", composed'.bad>>)

(***************************************************************************)
(* Dispatch.                                                               *)
(***************************************************************************)
Recipient(group, v) ==
  IF group = "ET" \/ v = "U2" THEN "mumair299792458u@gmail.com"
  ELSE "uzairshabbirsab@gmail.com"

\* the result of a run that reached its end
Respond(success, message) ==
  /\ pc' = "done"
  /\ result' = [status |-> 200, success |-> success,
                hasLogs |-> HasLogs(variant), logs |-> logs', message |-> message,
                raised |-> FALSE,
                \* month: monthName, year: lastMonthYear
                period |-> IF variant = "U1" THEN Period(variant) ELSE <<>>]

\* if (!adminEmail || !gmailAppPassword)
CheckMailer ==
  /\ UNCHANGED body
  /\ pc = "mail"
  /\ \E set \in BOOLEAN :
       /\ mailer' = IF set THEN "set" ELSE "unset"
       /\ IF set
          THEN /\ pc' = "sendET"
               /\ UNCHANGED <<logs, result>>
          ELSE /\ logs' = pushLog(logs, variant, Log("Missing email credentials", "-", 0, 0))
               /\ IF variant \in {"GE", "S2"}
                  THEN /\ pc' = "done"
                       /\ result' = [status |-> 500, success |-> "absent",
                                     hasLogs |-> FALSE, logs |-> <<>>,
                                     message |-> "Missing credentials",
                                     raised |-> FALSE, period |-> <<>>]
                  ELSE Respond("false", "Missing email credentials")
  /\ UNCHANGED <<inputVars, keyIdx, listVars, envVars, catIdx, dlVars, attVars, sends>>
  /\ Remote(<<"mailer", mailer'>>)

\* one group: sendMail if it has attachments, and what follows
Dispatch(group, attachments, next) ==
  IF Len(attachments) > 0
  THEN \E ok \in (IF faults < MaxFaults THEN BOOLEAN ELSE {TRUE}) :
         /\ faults' = IF ok THEN faults ELSE faults + 1
         /\ sends' = Append(sends, [group |-> group, to |-> Recipient(group, variant),
                                    attachments |-> attachments, ok |-> ok])
         /\ logs' = pushLog(logs, variant,
                       Log(IF ok THEN "email sent" ELSE "Error sending email", group, 0, 0))
         /\ IF ~ok /\ ~SendCatches(variant)
            THEN Respond500
            ELSE next
  ELSE /\ UNCHANGED <<sends, faults>>
       /\ logs' = pushLog(logs, variant, Log("No attachments to send", group, 0, 0))
       /\ next

SendET ==
  /\ UNCHANGED body
  /\ pc = "sendET"
  /\ Dispatch("ET", attachmentsET, pc' = "sendNonET" /\ UNCHANGED result)
  /\ UNCHANGED <<inputVars, keyIdx, listVars, served, failures, catIdx, dlVars,
                 attVars, mailer>>
  /\ Remote(<<"send", sends' = sends \/ LastOf(sends').ok>>)

SendNonET ==
  /\ UNCHANGED body
  /\ pc = "sendNonET"
  /\ Dispatch("NonET", attachmentsNonET, Respond("true", ""))
  /\ UNCHANGED <<inputVars, keyIdx, listVars, served, failures, catIdx, dlVars,
                 attVars, mailer>>
  /\ Remote(<<"send", sends' = sends \/ LastOf(sends').ok>>)

Next ==
  \/ ReadBodyFails
  \/ RejectInput
  \/ StartRun
  \/ KeysDone
  \/ SkipKey
  \/ EnterKey
  \/ ListPage
  \/ ListFail
  \/ BeginCategory
  \/ EmptyCategory
  \/ NoUrl
  \/ FetchOk
  \/ FetchFail
  \/ FinishCategory
  \/ CheckMailer
  \/ SendET
  \/ SendNonET

Spec == Init /\ [][Next]_vars

(***************************************************************************)
(* Two requests served side by side by the same deployment: same code,     *)
(* same STRIPE_KEYS, same body.  The runs share no variable.  The second   *)
(* is given, read by read, what the first was given: the same clock        *)
(* reading, listing pages, fetch outcomes, parse outcomes, mailer          *)
(* credentials and send outcomes.                                          *)
(***************************************************************************)
\* the variables of one run
RunState ==
  [body |-> body, gte |-> gte, lte |-> lte, lastMonthIndex |-> lastMonthIndex,
   lastMonthYear |-> lastMonthYear, pc |-> pc, logs |-> logs,
   keyIdx |-> keyIdx, starting_after |-> starting_after,
   paidAndOpenLinks |-> paidAndOpenLinks, otherStatusLinks |-> otherStatusLinks,
   requests |-> requests, responses |-> responses, listOutcome |-> listOutcome,
   served |-> served, failures |-> failures, faults |-> faults,
   catIdx |-> catIdx, invIdx |-> invIdx, attempt |-> attempt,
   fetches |-> fetches, lastDownload |-> lastDownload, pdfBuffers |-> pdfBuffers,
   outcomes |-> outcomes, composed |-> composed, attachmentsET |-> attachmentsET,
   attachmentsNonET |-> attachmentsNonET, mailer |-> mailer, sends |-> sends,
   result |-> result]

\* two GET requests to runMonthlyJob of the first copy of part_000, with the
\* credentials of ET and PC set and that of PCP missing
InitTwin ==
  /\ Start
  /\ variant = "U1"
  /\ body = NoBody
  /\ now = Today
  /\ STRIPE_KEYS = [k \in Keys |-> k # "PCP"]
  /\ run = 1
  /\ tape = <<>>
  /\ other = RunState

\* the run that has the processor awaits, the other goes on
Yield ==
  /\ \/ run = 1 /\ (tape # <<>> \/ pc = "done")
     \/ run = 2 /\ tape = <<>> /\ other.pc # "done"
  /\ run' = 3 - run
  /\ other' = RunState
  /\ body' = other.body
  /\ gte' = other.gte
  /\ lte' = other.lte
  /\ lastMonthIndex' = other.lastMonthIndex
  /\ lastMonthYear' = other.lastMonthYear
  /\ pc' = other.pc
  /\ logs' = other.logs
  /\ keyIdx' = other.keyIdx
  /\ starting_after' = other.starting_after
  /\ paidAndOpenLinks' = other.paidAndOpenLinks
  /\ otherStatusLinks' = other.otherStatusLinks
  /\ requests' = other.requests
  /\ responses' = other.responses
  /\ listOutcome' = other.listOutcome
  /\ served' = other.served
  /\ failures' = other.failures
  /\ faults' = other.faults
  /\ catIdx' = other.catIdx
  /\ invIdx' = other.invIdx
  /\ attempt' = other.attempt
  /\ fetches' = other.fetches
  /\ lastDownload' = other.lastDownload
  /\ pdfBuffers' = other.pdfBuffers
  /\ outcomes' = other.outcomes
  /\ composed' = other.composed
  /\ attachmentsET' = other.attachmentsET
  /\ attachmentsNonET' = other.attachmentsNonET
  /\ mailer' = other.mailer
  /\ sends' = other.sends
  /\ result' = other.result
  /\ UNCHANGED <<variant, STRIPE_KEYS, now, tape>>

NextTwin ==
  \/ StartRun
  \/ KeysDone
  \/ SkipKey
  \/ EnterKey
  \/ ListPage
  \/ ListFail
  \/ BeginCategory
  \/ EmptyCategory
  \/ NoUrl
  \/ FetchOk
  \/ FetchFail
  \/ FinishCategory
  \/ CheckMailer
  \/ SendET
  \/ SendNonET
  \/ Yield

SpecTwin == InitTwin /\ [][NextTwin]_vars

(***************************************************************************)
(* Properties.                                                             *)
(***************************************************************************)
GroupOf(key) == IF key = "ET" THEN attachmentsET ELSE attachmentsNonET
AllAttachments == attachmentsET \o attachmentsNonET
\* the one-page document with the fixed text
Placeholder ==
  <<[src |-> "-", inv |-> 0, no |-> 1, text |-> "No data available for this category."]>>
\* the category loop has just ended the iteration of a pair
PairEnded == composed.kind # "none"
\* the links of the pair that has just ended
EndedLinks == IF composed.cat = 1 THEN paidAndOpenLinks ELSE otherStatusLinks
\* the key loop is over
KeyLoopOver == pc \in {"mail", "sendET", "sendNonET", "done"}
\* getInvoices has just returned to the run
ListReturned == pc = "cats" /\ requests # <<>>

\* C1: a download of a present reference that got no bytes (every fetch
\* failed) has made exactly 5 fetch attempts and has returned null.
C1_RetryBound ==
  (~IsAbsent(lastDownload.url) /\ lastDownload.ret \in {"null", "throw"})
    => (lastDownload.fetches = 5 /\ lastDownload.ret = "null")

\* C2: no download call ends by raising: each returns bytes or null.
C2_DownloadNeverRaises == lastDownload.ret # "throw"

\* C3: once the key loop is over, every key with a credential has exactly
\* one composite per category in the groups; no failure ended the loop early.
C3_Isolation ==
  KeyLoopOver =>
    \A k \in Keys : STRIPE_KEYS[k] =>
      \A c \in 1..Len(CategoryNames) :
        Cardinality({i \in 1..Len(AllAttachments) :
                       /\ AllAttachments[i].filename.key = k
                       /\ AllAttachments[i].filename.cat = CategoryNames[c]}) = 1

\* C4: when a page request of getInvoices fails, getInvoices returns two empty
\* arrays and raises nothing, and the run goes on with that key's categories.
C4_ListFailurePolicy ==
  (responses # <<>> /\ ~LastOf(responses).ok)
    => /\ pc = "cats"
       /\ listOutcome = "error"
       /\ paidAndOpenLinks = <<>>
       /\ otherStatusLinks = <<>>

\* C5: a pair whose record list is empty gets exactly the one-page
\* placeholder as its composite, never null or a document without pages, and
\* neither a download nor a merge is made for it.
C5_EmptyCategoryPlaceholder ==
  (PairEnded /\ composed.nlinks = 0)
    => /\ composed.kind = "attached"
       /\ GroupOf(composed.key) # <<>>
       /\ LastOf(GroupOf(composed.key)).filename.key = composed.key
       /\ LastOf(GroupOf(composed.key)).filename.cat = CategoryNames[composed.cat]
       /\ LastOf(GroupOf(composed.key)).content = Placeholder
       /\ outcomes = <<>>
       /\ ~composed.called
       /\ lastDownload.ret = "none"

C5_Witness ==
  /\ PairEnded
  /\ composed.nlinks = 0
  /\ composed.cat = 2
  /\ paidAndOpenLinks # <<>>
  /\ LastOf(GroupOf(composed.key)).content = Placeholder

\* C6: a pair with records whose downloads all gave null is not merged and
\* gets the placeholder; and no attachment of a message has zero pages.
C6_AllUnavailablePlaceholder ==
  /\ (PairEnded /\ composed.nlinks > 0 /\ pdfBuffers = <<>>)
       => /\ ~composed.called
          /\ composed.kind = "attached"
          /\ LastOf(GroupOf(composed.key)).content = Placeholder
  /\ \A i \in 1..Len(sends) :
       \A j \in 1..Len(sends[i].attachments) :
         sends[i].attachments[j].content # <<>>

\* C7: when the buffers are not empty and the merge fails, the pair gets the
\* placeholder: it is not skipped and the run is not aborted.
C7_MergeFailureFallsBack ==
  (PairEnded /\ composed.bad # 0)
    => /\ composed.kind = "attached"
       /\ LastOf(GroupOf(composed.key)).content = Placeholder

\* C8: when at least one download of a pair succeeded and the merge
\* succeeded, the composite is the concatenation, in listing order, of the
\* pages (in their own order) of exactly the records whose download succeeded.
C8_MergedPagesInListingOrder ==
  (PairEnded /\ composed.called /\ composed.bad = 0 /\ pdfBuffers # <<>>)
    => /\ composed.kind = "attached"
       /\ Len(outcomes) = Len(EndedLinks)
       /\ LastOf(GroupOf(composed.key)).filename.key = composed.key
       /\ LastOf(GroupOf(composed.key)).filename.cat = CategoryNames[composed.cat]
       /\ LastOf(GroupOf(composed.key)).content =
            Concat([i \in 1..Len(EndedLinks) |->
                      IF IsNullBuffer(outcomes[i]) THEN <<>>
                      ELSE [j \in 1..NumPages(EndedLinks[i].invoice_pdf) |->
                              [src |-> composed.key,
                               inv |-> EndedLinks[i].invoice_pdf,
                               no |-> j, text |-> "invoice"]]])

C8_Witness ==
  /\ PairEnded
  /\ composed.kind = "attached"
  /\ composed.bad = 0
  /\ Len(outcomes) = 2
  /\ ~IsNullBuffer(outcomes[1])
  /\ ~IsNullBuffer(outcomes[2])
  /\ Len(LastOf(GroupOf(composed.key)).content) = 3

\* C9: getInvoices puts every record received in exactly one array, Primary
\* iff its status is "paid" or "open", each array in the order received.
C9_Classification ==
  (ListReturned /\ listOutcome = "ok")
    => LET prim == SelectSeq(Received, LAMBDA r : r.status = "paid" \/ r.status = "open")
           oth == SelectSeq(Received, LAMBDA r : r.status # "paid" /\ r.status # "open")
       IN /\ paidAndOpenLinks =
               [i \in 1..Len(prim) |-> [invoice_pdf |-> prim[i].invoice_pdf,
                                        invoice_number |-> prim[i].number]]
          /\ otherStatusLinks =
               [i \in 1..Len(oth) |-> [invoice_pdf |-> oth[i].invoice_pdf,
                                       invoice_number |-> oth[i].number]]
          /\ Len(paidAndOpenLinks) + Len(otherStatusLinks) = Len(Received)

C9_Witness ==
  /\ ListReturned
  /\ listOutcome = "ok"
  /\ Len(responses) = 2
  /\ Len(Received) = 2
  /\ Received[1].status = "missing"
  /\ Received[2].status = "open"
  /\ Len(paidAndOpenLinks) = 1

\* C10: the first page request has no cursor, each later one has the id of
\* the last record of the page before it, all ask for 10 records of the
\* run's window, and none follows an empty page or a page without has_more.
C10_Pagination ==
  /\ Len(requests) = Len(responses)
  /\ \A i \in 1..Len(requests) :
       /\ requests[i].limit = 10
       /\ requests[i].gte = gte
       /\ requests[i].lte = lte
       /\ IF i = 1
          THEN requests[i].starting_after = 0
          ELSE /\ responses[i - 1].ok
               /\ responses[i - 1].data # <<>>
               /\ responses[i - 1].has_more
               /\ requests[i].starting_after = LastOf(responses[i - 1].data).id

C10_Witness ==
  /\ Len(requests) = 2
  /\ Len(responses[1].data) = 2
  /\ requests[2].starting_after = 2
  /\ LastOf(responses).data = <<>>

\* the sends issued to a group
SendsTo(group) == SelectSeq(sends, LAMBDA m : m.group = group)

\* C11: when both groups hold composites and the send of the first group (ET)
\* fails, the send of the second group (PC/PCP) is still attempted in the run.
C11_SecondSendAttempted ==
  (/\ pc = "done"
   /\ attachmentsNonET # <<>>
   /\ \E i \in 1..Len(sends) : sends[i].group = "ET" /\ ~sends[i].ok)
    => SendsTo("NonET") # <<>>

\* the composites of a group
AttachmentsOf(group) == IF group = "ET" THEN attachmentsET ELSE attachmentsNonET
Groups == {"ET", "NonET"}

\* C12: a send is issued only when the loop over keys and categories is
\* over; each send carries all composites of its group; and when the mailer
\* credentials are set the finished run has issued exactly one send for each
\* group that holds a composite and none for a group that holds none.
C12_DispatchAfterProcessing ==
  /\ sends # <<>> => (keyIdx > Len(KeyOrder) /\ pc \in {"sendNonET", "done"})
  /\ \A i \in 1..Len(sends) :
       /\ sends[i].attachments # <<>>
       /\ sends[i].attachments = AttachmentsOf(sends[i].group)
  /\ \A g \in Groups : Len(SendsTo(g)) <= 1
  /\ (pc = "done" /\ mailer = "set") =>
       \A g \in Groups :
         Len(SendsTo(g)) = IF AttachmentsOf(g) # <<>> THEN 1 ELSE 0

\* C13: within one run at most one message is sent to any one destination
\* address: the composites going to one address are batched in one message.
C13_OneMessagePerAddress ==
  \A i, j \in 1..Len(sends) : sends[i].to = sends[j].to => i = j

\* the composites of a sequence that belong to the pair (key, category name)
CompositesOf(atts, key, cat) ==
  {i \in 1..Len(atts) : atts[i].filename.key = key /\ atts[i].filename.cat = cat}

\* C14: every composite is in exactly one group, the one of its Source key:
\* those of ET in the ET group, those of PC and PCP in the PC/PCP group.
C14_Routing ==
  /\ \A i \in 1..Len(attachmentsET) : attachmentsET[i].filename.key = "ET"
  /\ \A i \in 1..Len(attachmentsNonET) :
       attachmentsNonET[i].filename.key \in {"PC", "PCP"}
  /\ (PairEnded /\ composed.kind = "attached") =>
       LET cat == CategoryNames[composed.cat]
           inET == Cardinality(CompositesOf(attachmentsET, composed.key, cat))
           inNonET == Cardinality(CompositesOf(attachmentsNonET, composed.key, cat))
       IN IF composed.key = "ET"
          THEN inET = 1 /\ inNonET = 0
          ELSE inET = 0 /\ inNonET = 1

C14_Witness ==
  /\ PairEnded
  /\ composed.kind = "attached"
  /\ composed.key = "PCP"
  /\ composed.cat = 2
  /\ Len(attachmentsET) = 2
  /\ Len(attachmentsNonET) = 4

\* C15: when the mailer credentials are set and every group that holds a
\* composite has had its send attempted, the run reports success: true,
\* whether the sends succeeded or failed.
C15_SuccessAfterAttempts ==
  (/\ pc = "done"
   /\ mailer = "set"
   /\ \A g \in Groups : AttachmentsOf(g) # <<>> => SendsTo(g) # <<>>)
    => result.success = "true"

\* the logs array returned with the result holds a credentials-missing entry
LogsCredentialsMissing ==
  \E i \in 1..Len(result.logs) : result.logs[i].msg = "Missing email credentials"

\* C16: when the mailer credentials are absent, the result of the run carries
\* success: false, no send has been attempted, and the RunLog returned with
\* the result holds a credentials-missing entry.
C16_MailerAbsent ==
  (pc = "done" /\ mailer = "unset")
    => /\ result.success = "false"
       /\ sends = <<>>
       /\ LogsCredentialsMissing

\* the entries of the returned logs that report the skip of key k
SkipEntries(k) ==
  {i \in 1..Len(result.logs) :
     result.logs[i].msg = "Missing env var" /\ result.logs[i].key = k}

\* C17: with the mailer credentials set, one account without credential and
\* another with one, the run ends with success: true; the account without
\* credential has one skip entry in the log, no listing or download is made
\* for it and it has no composite; the account with a credential has one
\* composite for each category.
C17_MissingAccountSkipped ==
  /\ pc \in {"list", "cats", "download", "merge"} => STRIPE_KEYS[CurrentKey]
  /\ (/\ pc = "done"
      /\ mailer = "set"
      /\ \E k \in Keys : STRIPE_KEYS[k]
      /\ \E k \in Keys : ~STRIPE_KEYS[k])
       => /\ result.success = "true"
          /\ \A k \in Keys :
               IF STRIPE_KEYS[k]
               THEN \A c \in 1..Len(CategoryNames) :
                      Cardinality(CompositesOf(AllAttachments, k, CategoryNames[c])) = 1
               ELSE /\ Cardinality(SkipEntries(k)) = 1
                    /\ \A i \in 1..Len(AllAttachments) :
                         AllAttachments[i].filename.key # k

\* a JSON value that is a number: a number, or a string that spells an integer
SpellsInteger(chars) ==
  LET u == IF chars # <<>> /\ Head(chars) \in {"-", "+"} THEN Tail(chars) ELSE chars
  IN u # <<>> /\ \A i \in 1..Len(u) : IsDigit(u[i])
IsNumber(v) == v.t = "number" \/ (v.t = "string" /\ SpellsInteger(v.s))
RECURSIVE DigitsValue(_)
DigitsValue(chars) ==
  IF chars = <<>> THEN 0
  ELSE 10 * DigitsValue(SubSeq(chars, 1, Len(chars) - 1)) + DigitValue(LastOf(chars))
ValueOf(v) ==
  IF v.t = "number" THEN v.n
  ELSE IF Head(v.s) = "-" THEN -DigitsValue(Tail(v.s))
  ELSE IF Head(v.s) = "+" THEN DigitsValue(Tail(v.s))
  ELSE DigitsValue(v.s)
\* year or month is missing, is not a number, or month is outside 1..12
Malformed(b) ==
  \/ b.year.t = "undefined"
  \/ b.month.t = "undefined"
  \/ ~IsNumber(b.year)
  \/ ~IsNumber(b.month)
  \/ ValueOf(b.month) \notin 1..12

\* the first second of calendar month m of year y, counted from 1970-01-01
LeapYear(y) == (y % 4 = 0 /\ y % 100 # 0) \/ y % 400 = 0
LeapDaysThrough(y) == (y \div 4) - (y \div 100) + (y \div 400)
DaysBeforeMonth == <<0, 31, 59, 90, 120, 151, 181, 212, 243, 273, 304, 334>>
MonthStart(y, m) ==
  ( 365 * (y - 1970) + LeapDaysThrough(y - 1) - LeapDaysThrough(1969)
    + DaysBeforeMonth[m] + (IF LeapYear(y) /\ m > 2 THEN 1 ELSE 0) ) * 86400
NextMonthStart(y, m) == IF m = 12 THEN MonthStart(y + 1, 1) ELSE MonthStart(y, m + 1)

\* no request has gone to a remote service
NoRemoteCall ==
  /\ requests = <<>>
  /\ responses = <<>>
  /\ served = 0
  /\ fetches = 0
  /\ failures = 0
  /\ faults = 0
  /\ sends = <<>>

\* C19: the { year, month } trigger answers 400, with no remote call made, when
\* year or month is missing, is not a number, or month is outside 1..12; for
\* every other body it goes on with the window of exactly that calendar month.
C19_TriggerValidation ==
  (TakesBody(variant) /\ body.kind = "json" /\ pc # "start")
    => IF Malformed(body)
       THEN pc = "done" /\ result.status = 400 /\ NoRemoteCall
       ELSE /\ pc = "keys"
            /\ result.status = 0
            /\ gte = MonthStart(ValueOf(body.year), ValueOf(body.month))
            /\ lte = NextMonthStart(ValueOf(body.year), ValueOf(body.month)) - 1

\* C20: the trigger answers 500 only when an exception escaped the run: a run
\* in which nothing is thrown (absent mailer credentials included) is answered
\* with another status.
C20_Status500OnlyOnException ==
  (pc = "done" /\ result.status = 500) => result.raised


(***************************************************************************)
(* C21: every run that has ended, on every path (success, absent mailer    *)
(* credentials, caught top-level exception), has returned a structured     *)
(* result that holds both a boolean success field and the log sequence.    *)
(***************************************************************************)
C21_StructuredResult ==
  pc = "done" => /\ result.success \in {"true", "false"}
                 /\ result.hasLogs


(***************************************************************************)
(* C22: download called with an absent reference returns unavailable       *)
(* immediately: the step that handles the absent reference ends the call   *)
(* with null on its first attempt, with zero fetch calls made and exactly  *)
(* one line appended to the log; the attempt loop is not iterated again.   *)
(***************************************************************************)
AbsentReferenceStep ==
  (pc = "download" /\ IsAbsent(CurrentUrl))
    => /\ attempt = 1
       /\ lastDownload' = [url |-> CurrentUrl, fetches |-> 0, ret |-> "null"]
       /\ outcomes' = Append(outcomes, NullBuffer)
       /\ HasLogs(variant)
            => logs' = Append(logs, Log("No PDF URL", CurrentKey, CurrentNumber, 0))

C22_AbsentReferenceImmediate == [][AbsentReferenceStep]_vars


(***************************************************************************)
(* C23: a record whose document reference is null is excluded from the     *)
(* buffers passed to merge and does not block its siblings: the download   *)
(* of such a record returns null and raises nothing, every record of the   *)
(* category is still downloaded, the buffers are exactly the downloads     *)
(* that succeeded, and, the merge not failing, the composite holds the     *)
(* pages of every sibling whose download succeeded.                        *)
(***************************************************************************)
HasNullReference(links) == \E i \in 1..Len(links) : IsAbsent(links[i].invoice_pdf)

C23_NullReferenceExcluded ==
  /\ (lastDownload.ret # "none" /\ IsAbsent(lastDownload.url))
       => lastDownload.ret = "null"
  /\ (PairEnded /\ HasNullReference(EndedLinks))
       => /\ Len(outcomes) = Len(EndedLinks)
          /\ \A i \in 1..Len(EndedLinks) :
               IsAbsent(EndedLinks[i].invoice_pdf) => IsNullBuffer(outcomes[i])
          /\ pdfBuffers = SelectSeq(outcomes, LAMBDA b : ~IsNullBuffer(b))
          /\ (composed.bad = 0 /\ pdfBuffers # <<>>)
               => /\ composed.kind = "attached"
                  /\ LastOf(GroupOf(composed.key)).content =
                       Concat([i \in 1..Len(EndedLinks) |->
                                 IF IsNullBuffer(outcomes[i]) THEN <<>>
                                 ELSE InvoicePages(composed.key,
                                                   EndedLinks[i].invoice_pdf)])


(***************************************************************************)
(* C24: idempotence.  Two runs over the same window that are given the     *)
(* same remote responses (listing pages, outcome of every fetch attempt,   *)
(* send outcomes) end at the same point with the same destination groups:  *)
(* the same filenames in the same order and composites with the same page  *)
(* sequences.                                                              *)
(***************************************************************************)
BothEnded == run = 2 /\ pc = "done" /\ other.pc = "done"

Pairs == Keys \X (1..Len(CategoryNames))

C25_Filenames ==
  /\ (PairEnded /\ composed.kind = "attached")
       => LastOf(GroupOf(composed.key)).filename =
            FileName(composed.key, composed.cat, variant)
  /\ (pc = "keys" /\ keyIdx = 1)
       => \A p, q \in Pairs :
            FileName(p[1], p[2], variant) = FileName(q[1], q[2], variant) => p = q
  /\ \A m \in 1..Len(sends) :
       \A i \in 1..Len(sends[m].attachments) :
         LET f == sends[m].attachments[i].filename
         IN /\ \E p \in Pairs : f = FileName(p[1], p[2], variant)
            /\ \A j \in 1..Len(sends[m].attachments) :
                 sends[m].attachments[j].filename = f => i = j

C25_Witness ==
  /\ \E m \in 1..Len(sends) : Len(sends[m].attachments) = 4
  /\ \E i \in 1..Len(attachmentsNonET) :
       attachmentsNonET[i].filename =
         [key |-> "PCP", cat |-> "Other_Status", period |-> Period(variant)]


(***************************************************************************)
(* C26: the log is append-only and ordered: every step of a run leaves the *)
(* log as it was with zero or more entries added at its end (none removed, *)
(* changed or moved), and the log returned with the result of the run is   *)
(* the whole log of the run, in append order.                              *)
(***************************************************************************)
IsPrefix(s, t) == Len(s) <= Len(t) /\ SubSeq(t, 1, Len(s)) = s

C26_RunLogAppendOnly ==
  /\ [][IsPrefix(logs, logs')]_vars
  /\ []((pc = "done" /\ result.hasLogs) => result.logs = logs)

C26_Witness ==
  /\ pc = "done"
  /\ result.hasLogs
  /\ result.success = "true"
  /\ Len(result.logs) > 12
  /\ \E i, j \in 1..Len(result.logs) :
       /\ i < j
       /\ result.logs[i].msg = "Error downloading"
       /\ result.logs[j].msg = "File downloaded"


(***************************************************************************)
(* C27: merge is all-or-nothing: when one of the buffers it is given fails *)
(* to parse, mergePdfs returns null and appends a log entry; it raises     *)
(* nothing to the run, and the composite of the pair never holds the pages *)
(* of only the buffers that came before the failure.                       *)
(***************************************************************************)
C27_MergeAllOrNothing ==
  (PairEnded /\ composed.bad # 0)
    => /\ mergePdfs(pdfBuffers, variant, composed.bad).kind = "null"
       /\ composed.kind # "aborted"
       /\ result.status # 500
       /\ HasLogs(variant)
            => \E i \in 1..Len(logs) :
                 logs[i] = Log("Error merging PDF buffers", composed.key, 0, 0)
       /\ composed.kind = "attached"
            => LastOf(GroupOf(composed.key)).content = Placeholder


(***************************************************************************)
(* C28: the mailer credentials are checked once, up front: a listing or a  *)
(* download is requested only after the check has found them, and when     *)
(* they are absent the run ends with success false having made no remote   *)
(* call at all.                                                            *)
(***************************************************************************)
C28_MailerCheckedUpFront ==
  /\ pc \in {"list", "download"} => mailer = "set"
  /\ mailer = "unset" => /\ pc = "done"
                         /\ result.success = "false"
                         /\ served = 0
                         /\ failures = 0
                         /\ faults = 0
                         /\ sends = <<>>


(***************************************************************************)
(* C29: download appends one log line per fetch attempt, success or        *)
(* failure, in attempt order.  In the log, the lines of a record whose     *)
(* download is under way are the failure lines of the attempts made so     *)
(* far, numbered from 1; those of a download that failed for good are the  *)
(* 5 failure lines numbered 1 to 5 and then one exhaustion line; those of  *)
(* a download that succeeded on attempt k are k-1 failure lines and then   *)
(* one success line; and nothing else.                                     *)
(***************************************************************************)
DownloadMessages ==
  {"Error downloading", "Skipping invoice", "File downloaded", "No PDF URL"}

\* the lines of the log that downloadPdfInMemory wrote for one record
DownloadLines(key, num) ==
  SelectSeq(logs, LAMBDA e : e.key = key /\ e.num = num /\ e.msg \in DownloadMessages)

FailureLines(key, num, n) == [a \in 1..n |-> Log("Error downloading", key, num, a)]

LinesOfDownloads ==
  (HasLogs(variant) /\ pc \in {"download", "merge"})
    => /\ \A i \in 1..Len(outcomes) :
            LET num == CurrentLinks[i].invoice_number
                lines == DownloadLines(CurrentKey, num)
            IN ~IsAbsent(CurrentLinks[i].invoice_pdf)
                 => IF IsNullBuffer(outcomes[i])
                    THEN lines = FailureLines(CurrentKey, num, 5)
                                   \o <<Log("Skipping invoice", CurrentKey, num, 0)>>
                    ELSE \E k \in 1..5 :
                           /\ i = Len(outcomes) => k = lastDownload.fetches
                           /\ lines = FailureLines(CurrentKey, num, k - 1)
                                        \o <<Log("File downloaded", CurrentKey, num, 0)>>
       /\ pc = "download"
            => DownloadLines(CurrentKey, CurrentNumber)
                 = FailureLines(CurrentKey, CurrentNumber, attempt - 1)

C29_OneLinePerAttempt == []LinesOfDownloads

C29_Witness ==
  /\ HasLogs(variant)
  /\ pc = "merge"
  /\ Len(outcomes) = 2
  /\ IsNullBuffer(outcomes[1])
  /\ ~IsAbsent(CurrentLinks[1].invoice_pdf)
  /\ ~IsNullBuffer(outcomes[2])


(***************************************************************************)
(* C30: every record that getInvoices returned is consumed once: download  *)
(* is invoked exactly once for each of them, in listing order within its   *)
(* category, the Primary category of a key before its Other category, and  *)
(* the keys one after another.  The record being downloaded is the one     *)
(* after those already downloaded; a category is left with a download      *)
(* made for each of its records; the run does not end while records of    *)
(* the current key have had no download; and the loops only move forward.  *)
(***************************************************************************)
\* records of the current key for which no download call has ended
NotDownloaded ==
  IF catIdx = 1
  THEN (Len(paidAndOpenLinks) - Len(outcomes)) + Len(otherStatusLinks)
  ELSE Len(otherStatusLinks) - Len(outcomes)

ConsumedInOrder ==
  /\ pc = "download" => (invIdx = Len(outcomes) + 1 /\ invIdx <= Len(CurrentLinks))
  /\ pc = "merge" => Len(outcomes) = Len(CurrentLinks)
  /\ pc \in {"download", "merge"}
       => \A i \in 1..Len(outcomes) :
            IsNullBuffer(outcomes[i])
              \/ outcomes[i] = Buffer(CurrentKey, CurrentLinks[i].invoice_pdf)
  /\ (PairEnded /\ composed.nlinks > 0) => Len(outcomes) = Len(EndedLinks)
  /\ (pc = "done" /\ keyIdx <= Len(KeyOrder) /\ listOutcome = "ok")
       => NotDownloaded = 0

LoopsMoveForward ==
  /\ keyIdx' >= keyIdx
  /\ keyIdx' = keyIdx => catIdx' >= catIdx
  /\ (keyIdx' = keyIdx /\ catIdx' = catIdx /\ pc = "download" /\ pc' = "download")
       => invIdx' \in {invIdx, invIdx + 1}
  /\ outcomes' # outcomes
       => (outcomes' = <<>> \/ SubSeq(outcomes', 1, Len(outcomes)) = outcomes)

C30_ConsumedOnce == []ConsumedInOrder /\ [][LoopsMoveForward]_vars


(***************************************************************************)
(* The window of a run, for the dates the clock can show.                  *)
(***************************************************************************)
\* first and last days of months after a month of 31, 28 or 29, and 30 days,
\* in a leap year and in a common year, and the last day of a short month
Nows ==
  {Date(y, m, d) : y \in {2024, 2025}, m \in {0, 2, 4, 11}, d \in {1, 31}}
    \cup {Date(2024, 1, 29), Date(2025, 5, 30)}
\* the first day of a year
NewYear == Date(2025, 0, 1)
\* bodies of a POST request: the months of two years, a body that cannot be
\* read and one that is refused
ClockBodies ==
  {[kind |-> "json", year |-> Num(y), month |-> Num(m)] :
     y \in {2024, 2025}, m \in {1, 2, 12, 13}} \cup {BrokenBody}

\* a request to a copy that computes its window from the clock or from the
\* body: the credential of ET alone on any date, those of ET and PC on the
\* first day of the year
InitClock ==
  /\ Start
  /\ variant \in {"S1", "S2", "U1", "U2"}
  /\ \/ /\ STRIPE_KEYS = [k \in Keys |-> k = "ET"]
        /\ now \in (IF TakesBody(variant) THEN {Today} ELSE Nows)
        /\ body \in (IF TakesBody(variant) THEN ClockBodies ELSE {NoBody})
     \/ /\ STRIPE_KEYS = [k \in Keys |-> k # "PCP"]
        /\ now = NewYear
        /\ body = (IF TakesBody(variant)
                   THEN [kind |-> "json", year |-> Num(2025), month |-> Num(1)]
                   ELSE NoBody)
  /\ run = 0
  /\ tape = <<>>
  /\ other = NoResult

SpecClock == InitClock /\ [][Next]_vars

\* C31: whatever the trigger (a body with year and month, the month before
\* the clock's, the days from a month back to yesterday) and whatever the
\* date or the accepted body, the window starts no later than it ends, every
\* page request carries it, and no step of the run changes it once computed
C31_TimeWindow ==
  /\ [](pc # "start" =>
          /\ gte <= lte
          /\ \A i \in 1..Len(requests) :
               requests[i].gte = gte /\ requests[i].lte = lte)
  /\ [][pc # "start" => gte' = gte /\ lte' = lte]_vars

\* the second page request of a run on the 31st of a month, when the day a
\* month back does not exist
C31_Witness ==
  /\ variant = "U2"
  /\ now = Date(2024, 2, 31)
  /\ Len(requests) >= 2
  /\ gte < lte


\* the names of the twelve months of the calendar, January first
CalendarMonths ==
  <<"January", "February", "March", "April", "May", "June", "July",
    "August", "September", "October", "November", "December">>
\* the calendar month before that of the clock: its year and its number 1..12
PreviousMonth ==
  IF now.month = 0 THEN [year |-> now.year - 1, month |-> 12]
  ELSE [year |-> now.year, month |-> now.month]

\* C32: a run of a copy that takes the month before the clock's (S1, U1) has
\* for window that whole month, from the first second of its first day to
\* the last second of its last day, the month of a run in January being the
\* December of the year before; every file name and the result of the run
\* carry the name of that month and its year
C32_PreviousCalendarMonth ==
  (variant \in {"S1", "U1"} /\ pc # "start") =>
    LET p == PreviousMonth
        named == <<CalendarMonths[p.month], p.year>>
    IN /\ gte = MonthStart(p.year, p.month)
       /\ lte = NextMonthStart(p.year, p.month) - 1
       /\ \A i \in 1..Len(AllAttachments) : AllAttachments[i].filename.period = named
       /\ (pc = "done" /\ variant = "U1") => result.period = named

\* a run of January has ended with a file attached
C32_Witness ==
  /\ variant = "U1"
  /\ now.month = 0
  /\ pc = "done"
  /\ result.success = "true"
  /\ result.period = <<"December", now.year - 1>>
  /\ Len(AllAttachments) > 0


\* a step of a download call in which http.get answers with bytes
FetchSucceeds ==
  pc = "download" /\ ~IsAbsent(CurrentUrl) /\ failures' = failures

\* that step ends the call: attempt k has made the k-th http.get call, its
\* bytes are what the call returns, and the next call starts from nothing
FirstSuccessStep ==
  FetchSucceeds =>
    /\ lastDownload' = [url |-> CurrentUrl, fetches |-> attempt, ret |-> "bytes"]
    /\ pdfBuffers' = Append(pdfBuffers, Buffer(CurrentKey, CurrentUrl))
    /\ outcomes' = Append(outcomes, Buffer(CurrentKey, CurrentUrl))
    /\ attempt' = 1
    /\ fetches' = 0

\* C33: a download stops at its first successful attempt: when the fetch of
\* attempt k succeeds, after k - 1 failed ones, k fetch calls have been made,
\* the bytes of attempt k are returned and the call makes no other fetch; no
\* download of a present reference makes more than 5 fetch calls
C33_StopsAtFirstSuccess ==
  /\ []((pc = "download" /\ ~IsAbsent(CurrentUrl))
          => (attempt \in 1..maxAttempts /\ fetches = attempt - 1))
  /\ [][FirstSuccessStep]_vars
  /\ [](~IsAbsent(lastDownload.url) =>
          /\ lastDownload.fetches <= 5
          /\ lastDownload.ret = "bytes" => lastDownload.fetches >= 1)

\* the fifth attempt of a download has succeeded after four failures
C33_Witness ==
  /\ variant \in {"U1", "S2"}
  /\ lastDownload.ret = "bytes"
  /\ lastDownload.fetches = 5
  /\ pdfBuffers # <<>>


(***************************************************************************)
(* Termination of a run.  The remote of ListPage holds MaxRecords records  *)
(* at most.  A remote that never runs out answers, past those, with pages  *)
(* that hold records and say has_more: of such pages the model keeps the   *)
(* cursor alone, the identifiers past MaxRecords being told apart from     *)
(* their predecessor only.                                                 *)
(***************************************************************************)
\* the identifier of the last record of a page past the records kept
NextId(id) == IF id = MaxRecords + 1 THEN MaxRecords + 2 ELSE MaxRecords + 1

\* stripe.invoices.list answers with a page of records and has_more = true,
\* once more: `if (!invoices.has_more) break` does not break, the cursor moves
ListMore ==
  /\ UNCHANGED body
  /\ pc = "list"
  /\ served = MaxRecords
  /\ starting_after' = NextId(starting_after)
  /\ UNCHANGED <<inputVars, pc, logs, keyIdx, paidAndOpenLinks, otherStatusLinks,
                 requests, responses, listOutcome, envVars, catIdx, dlVars,
                 attVars, mailVars, result>>
  /\ Remote(<<"list", starting_after'>>)

\* a GET request to either copy of part_000
InitLive ==
  /\ Init
  /\ variant \in {"U1", "U2"}

NextLive ==
  \/ StartRun
  \/ KeysDone
  \/ SkipKey
  \/ EnterKey
  \/ ListPage
  \/ ListFail
  \/ ListMore
  \/ BeginCategory
  \/ EmptyCategory
  \/ NoUrl
  \/ FetchOk
  \/ FetchFail
  \/ FinishCategory
  \/ CheckMailer
  \/ SendET
  \/ SendNonET

\* the run is one sequence of awaits: a step that can be taken is taken, and
\* a remote call that is pending is answered, by a response or by a failure
SpecLive == InitLive /\ [][NextLive]_vars /\ WF_vars(NextLive)

\* C34: every run ends with a result, whatever the remote answers as long
\* as each of its calls is answered, a source that answers every page
\* request with records and has_more = true included
C34_Termination == <>(pc = "done")

====
